---- MODULE Spec2Model ----
(***************************************************************************)
(* State-machine model of the Snake game in src/game.js (class SnakeGame). *)
(*                                                                         *)
(* Representation choices:                                                 *)
(*  - a cell / direction is a record [x |-> _, y |-> _], as in the source;  *)
(*  - speeds are held in half ticks per second (the source's speed * 2),   *)
(*    so that SPEED_INCREMENT = 0.5 is the integer 1;                      *)
(*  - moveInterval = 1000 / speed is the exact rational [num, den];        *)
(*  - timestamps are whole milliseconds;                                   *)
(*  - a localStorage item is a sequence of decimal digits, <<>> when the   *)
(*    key is absent (getItem returns null, which is falsy);                *)
(*  - Math.random() is a fraction num / RandomDen with 0 <= num < RandomDen;*)
(*  - a key is handled at the timestamp of the latest frame.               *)
(***************************************************************************)
EXTENDS Integers, Sequences, FiniteSets, TLC

VARIABLES
    state,          \* gameState.state
    score,          \* gameState.score
    highScore,      \* gameState.highScore
    speed,          \* gameState.speed, in half ticks per second
    foodEaten,      \* gameState.foodEaten
    foodPosition,   \* gameState.foodPosition (NoFood for null)
    segments,       \* snake.segments, head first
    direction,      \* snake.direction
    nextDirection,  \* snake.nextDirection
    lastMoveTime,   \* this.lastMoveTime
    moveInterval,   \* this.moveInterval, a rational [num, den] in ms
    now,            \* timestamp of the latest animation frame
    storage,        \* localStorage item 'snakeHighScore'
    played,         \* history: milliseconds spent in PLAYING since the latest
                    \* tick of the current game, NoTick before its first tick
    hung            \* TRUE once a call of spawnFood loops without end: the
                    \* page then runs no further handler and no further frame

vars == <<state, score, highScore, speed, foodEaten, foodPosition, segments,
          direction, nextDirection, lastMoveTime, moveInterval, now, storage,
          played, hung>>

gameVars == <<score, highScore, speed, foodEaten, foodPosition, segments,
              direction, nextDirection, lastMoveTime, moveInterval, storage,
              hung>>

----------------------------------------------------------------------------
(* Program constants, src/game.js lines 1-9.                               *)

GRID_WIDTH == 21
GRID_HEIGHT == 12
INITIAL_SPEED == 5
SPEED_INCREMENT_HALVES == 1
MAX_SPEED == 15
FOOD_POINTS == 10

----------------------------------------------------------------------------
(* Bounds of the model.                                                    *)

\* A frame arrives FrameMs or 2 * FrameMs milliseconds after the previous one.
FrameMs == 100
\* The clock stops at MaxClock * FrameMs milliseconds.
MaxClock == 14
\* Math.random() falls on one of the first SampleCount cells of NearCells.
SampleCount == 5
\* The clock of the long run stops at LongClock * FrameMs milliseconds.
LongClock == 240
\* In the long run no frame arrives, outside play, later than
\* LongIdle * FrameMs milliseconds after the last tick.
LongIdle == 2
\* High score left in localStorage by an earlier session (or no item at all).
PriorHigh == 24

----------------------------------------------------------------------------
(* Values.                                                                 *)

Cell(px, py) == [x |-> px, y |-> py]

NoFood == Cell(-1, -1)

NoTick == 0 - 1

RIGHT == Cell(1, 0)
LEFT == Cell(-1, 0)
UP == Cell(0, -1)
DOWN == Cell(0, 1)

Directions == {RIGHT, LEFT, UP, DOWN}

Opposite(d) == Cell(-d.x, -d.y)

Min(a, b) == IF a <= b THEN a ELSE b

EnterKeys == {"Enter"}
SpaceKeys == {" ", "Space"}
UpKeys == {"ArrowUp", "w", "W"}
DownKeys == {"ArrowDown", "s", "S"}
LeftKeys == {"ArrowLeft", "a", "A"}
RightKeys == {"ArrowRight", "d", "D"}

\* The keys the model presses: a key of every recognized kind and an unrecognized one.
Keys == {"Enter", " ", "Space", "ArrowUp", "s", "ArrowLeft", "D", "x"}

----------------------------------------------------------------------------
(* localStorage: Number.prototype.toString and parseInt on digit strings.  *)

RECURSIVE toString(_)
toString(n) == IF n < 10 THEN <<n>> ELSE Append(toString(n \div 10), n % 10)

RECURSIVE ParseInt(_)
ParseInt(s) ==
    IF Len(s) = 1 THEN s[1]
    ELSE 10 * ParseInt(SubSeq(s, 1, Len(s) - 1)) + s[Len(s)]

loadHighScore(item) == IF item # <<>> THEN ParseInt(item) ELSE 0

\* saveHighScore run before the new high score is assigned.
saveHighScoreStale(hs) == toString(highScore)

saveHighScore(hs) == toString(hs)

----------------------------------------------------------------------------
(* Math.random and spawnFood.                                              *)

RandomDen == GRID_WIDTH * GRID_HEIGHT

\* Math.floor(Math.random() * n) for Math.random() = num / RandomDen.
RandomInt(num, n) == (num * n) \div RandomDen

\* The random fraction at the upper end of the interval mapped to column c / row r.
DrawForColumn(c) == GRID_HEIGHT * c + (GRID_HEIGHT - 1)
DrawForRow(r) == GRID_WIDTH * r + (GRID_WIDTH - 1)

\* Variant with a starting snake of four cells.
StartSegmentsLong == <<Cell(10, 6), Cell(9, 6), Cell(8, 6), Cell(7, 6)>>

\* snake.segments as startGame sets it, lines 155-159.
StartSegments == <<Cell(10, 6), Cell(9, 6), Cell(8, 6)>>

\* The cells the model's samples fall on: the start position of the head,
\* the far corner of the grid, then cells around the start position.
NearCells ==
    LET h == StartSegments[1]
    IN  <<h, Cell(GRID_WIDTH - 1, GRID_HEIGHT - 1),
          Cell(h.x + 1, h.y), Cell(h.x + 1, h.y + 1), Cell(h.x, h.y + 1),
          Cell(h.x + 1, h.y - 1), Cell(h.x, h.y - 1), Cell(h.x - 1, h.y + 1),
          Cell(h.x - 1, h.y - 1), Cell(h.x + 2, h.y), Cell(h.x - 1, h.y)>>

GridCells == { Cell(cx, cy) : cx \in 0..(GRID_WIDTH - 1), cy \in 0..(GRID_HEIGHT - 1) }

DrawFor(c) == <<DrawForColumn(c.x), DrawForRow(c.y)>>

\* Pairs of Math.random() results (for x, for y) the model draws, whatever
\* the position of the head: those that fall on the first SampleCount cells
\* of NearCells.
RandomDraws ==
    [ h \in GridCells |->
        { DrawFor(NearCells[i]) : i \in 1..Min(SampleCount, Len(NearCells)) } ]

SampledCell(draw) ==
    Cell(RandomInt(draw[1], GRID_WIDTH), RandomInt(draw[2], GRID_HEIGHT))

OnSnake(segs, c) == \E i \in 1..Len(segs) : segs[i] = c

\* spawnFood without the rejection of occupied cells.
spawnFoodNoReject(segs, draws) == { SampledCell(dr) : dr \in draws[segs[1]] }

\* The cells the do-while loop of spawnFood can end with: any sampled cell
\* that no segment occupies.  The loop does not end when there is none.
\* draws maps the head's cell to the Math.random() results drawn there.
spawnFood(segs, draws) ==
    { SampledCell(dr) :
        dr \in { q \in draws[segs[1]] : ~OnSnake(segs, SampledCell(q)) } }

\* The do-while loop of lines 210-218 has no other exit than a sample off
\* the snake: with every cell of the grid occupied it rejects every sample.
spawnFoodHangs(segs) ==
    /\ Len(segs) >= GRID_WIDTH * GRID_HEIGHT
    /\ \A c \in GridCells : OnSnake(segs, c)

----------------------------------------------------------------------------
(* Initial state: the constructor, lines 12-42.                            *)

IntervalFor(sp) == [num |-> 1000 * 2, den |-> sp]

Init ==
    /\ storage \in {<<>>, toString(PriorHigh)}
    /\ state = "MENU"
    /\ score = 0
    /\ highScore = loadHighScore(storage)
    /\ speed = INITIAL_SPEED * 2
    /\ foodPosition = NoFood
    /\ foodEaten = 0
    /\ segments = <<>>
    /\ direction = RIGHT
    /\ nextDirection = RIGHT
    /\ lastMoveTime = 0
    /\ moveInterval = IntervalFor(INITIAL_SPEED * 2)
    /\ now = 0
    /\ played = NoTick
    /\ hung = FALSE

----------------------------------------------------------------------------
(* startGame, lines 148-169.                                               *)

\* startGame that forgets to reset foodEaten.
startGameKeepsCount(draws) ==
    /\ state' = "PLAYING"
    /\ score' = 0
    /\ speed' = INITIAL_SPEED * 2
    /\ moveInterval' = IntervalFor(INITIAL_SPEED * 2)
    /\ segments' = StartSegments
    /\ direction' = RIGHT
    /\ nextDirection' = RIGHT
    /\ foodPosition' \in spawnFood(StartSegments, draws)
    /\ UNCHANGED <<foodEaten, highScore, lastMoveTime, storage, hung>>

startGame(draws) ==
    /\ state' = "PLAYING"
    /\ score' = 0
    /\ speed' = INITIAL_SPEED * 2
    /\ foodEaten' = 0
    /\ moveInterval' = IntervalFor(INITIAL_SPEED * 2)
    /\ segments' = StartSegments
    /\ direction' = RIGHT
    /\ nextDirection' = RIGHT
    /\ foodPosition' \in spawnFood(StartSegments, draws)
    /\ UNCHANGED <<highScore, lastMoveTime, storage, hung>>

(* pauseGame, resumeGame, resetToMenu: lines 171-179 and 202-206.          *)

pauseGame == state' = "PAUSED" /\ UNCHANGED gameVars

resumeGame == state' = "PLAYING" /\ UNCHANGED gameVars

\* resetToMenu that restarts play at once.
resetToMenuRestarts == state' = "PLAYING" /\ UNCHANGED gameVars

resetToMenu == state' = "MENU" /\ UNCHANGED gameVars

(* gameOver, lines 181-200.                                                *)

\* The high-score test with !== for >.
IsDifferentScore(sc, hs) == sc # hs

IsNewHighScore(sc, hs) == sc > hs

gameOver ==
    /\ state' = "GAME_OVER"
    /\ IF IsNewHighScore(score, highScore)
          THEN /\ highScore' = score
               /\ storage' = saveHighScore(score)
          ELSE UNCHANGED <<highScore, storage>>

----------------------------------------------------------------------------
(* handleKeyPress, lines 96-146.                                           *)

\* The turn guard left out.
TurnAlwaysAccepted(dir, d) == TRUE

\* The turn guard as a test for a reversal only.
TurnAcceptedUnlessReversal(dir, d) == d # Opposite(dir)

\* The PLAYING case's guard on a turn request, lines 111, 116, 121, 126:
\* up/down only while direction.y = 0, left/right only while direction.x = 0.
TurnAccepted(dir, d) == IF d.x = 0 THEN dir.y = 0 ELSE dir.x = 0

requestTurn(d) ==
    /\ nextDirection' = IF TurnAccepted(direction, d) THEN d ELSE nextDirection
    /\ UNCHANGED <<state, score, highScore, speed, foodEaten, foodPosition,
                   segments, direction, lastMoveTime, moveInterval, storage,
                   hung>>

KeyDirection(key) ==
    IF key \in UpKeys THEN UP
    ELSE IF key \in DownKeys THEN DOWN
    ELSE IF key \in LeftKeys THEN LEFT
    ELSE RIGHT

TurnKeys == UpKeys \cup DownKeys \cup LeftKeys \cup RightKeys

\* Variant that also stores turn requests during a pause.
handleKeyPressSteersPaused(key, draws) ==
    /\ ~hung
    /\ CASE state = "MENU" ->
              IF key \in EnterKeys THEN startGame(draws) ELSE UNCHANGED <<state, gameVars>>
         [] state = "PLAYING" ->
              IF key \in SpaceKeys THEN pauseGame
              ELSE IF key \in TurnKeys THEN requestTurn(KeyDirection(key))
              ELSE UNCHANGED <<state, gameVars>>
         [] state = "PAUSED" ->
              IF key \in SpaceKeys THEN resumeGame
              ELSE IF key \in TurnKeys THEN requestTurn(KeyDirection(key))
              ELSE UNCHANGED <<state, gameVars>>
         [] state = "GAME_OVER" ->
              IF key \in EnterKeys THEN resetToMenu ELSE UNCHANGED <<state, gameVars>>
    /\ UNCHANGED now
    /\ played' = IF state = "MENU" /\ state' = "PLAYING" THEN NoTick ELSE played

handleKeyPress(key, draws) ==
    /\ ~hung
    /\ CASE state = "MENU" ->
              IF key \in EnterKeys THEN startGame(draws) ELSE UNCHANGED <<state, gameVars>>
         [] state = "PLAYING" ->
              IF key \in SpaceKeys THEN pauseGame
              ELSE IF key \in TurnKeys THEN requestTurn(KeyDirection(key))
              ELSE UNCHANGED <<state, gameVars>>
         [] state = "PAUSED" ->
              IF key \in SpaceKeys THEN resumeGame ELSE UNCHANGED <<state, gameVars>>
         [] state = "GAME_OVER" ->
              IF key \in EnterKeys THEN resetToMenu ELSE UNCHANGED <<state, gameVars>>
    /\ UNCHANGED now
    /\ played' = IF state = "MENU" /\ state' = "PLAYING" THEN NoTick ELSE played

----------------------------------------------------------------------------
(* eatFood, lines 262-276, on the segments as grown by moveSnake.          *)

\* Math.floor(speed) for a speed in half ticks per second.
FloorSpeed(sp) == sp \div 2

\* The speed bonus without Math.floor.
FoodScoreNoFloor(len, sp) == FOOD_POINTS + len + sp

\* The points of one food item, lines 263-265.
FoodScore(len, sp) == FOOD_POINTS + len + FloorSpeed(sp) * 2

\* The speed increase without its clamp.
SpeedAfterFoodUnclamped(sp, eaten) ==
    IF eaten % 5 = 0 THEN sp + SPEED_INCREMENT_HALVES ELSE sp

\* The speed after a food item that brings the count to eaten, lines 268-269.
SpeedAfterFood(sp, eaten) ==
    IF eaten % 5 = 0 /\ sp < MAX_SPEED * 2
      THEN Min(sp + SPEED_INCREMENT_HALVES, MAX_SPEED * 2)
      ELSE sp

\* Variant that keeps the interval of the starting speed after a speed-up.
eatFoodStaleInterval(grown, draws) ==
    /\ score' = score + FoodScore(Len(grown), speed)
    /\ foodEaten' = foodEaten + 1
    /\ speed' = SpeedAfterFood(speed, foodEaten + 1)
    /\ UNCHANGED moveInterval
    /\ IF spawnFoodHangs(grown)
         THEN hung' = TRUE /\ UNCHANGED foodPosition
         ELSE UNCHANGED hung /\ foodPosition' \in spawnFood(grown, draws)

eatFood(grown, draws) ==
    /\ score' = score + FoodScore(Len(grown), speed)
    /\ foodEaten' = foodEaten + 1
    /\ speed' = SpeedAfterFood(speed, foodEaten + 1)
    /\ moveInterval' = IF speed' # speed THEN IntervalFor(speed') ELSE moveInterval
    /\ IF spawnFoodHangs(grown)
         THEN hung' = TRUE /\ UNCHANGED foodPosition
         ELSE UNCHANGED hung /\ foodPosition' \in spawnFood(grown, draws)

----------------------------------------------------------------------------
(* moveSnake, lines 231-260.                                               *)

\* Variant whose head advances two cells in a tick.
NewHeadSkipsCell(segs, d) == Cell(segs[1].x + 2 * d.x, segs[1].y + 2 * d.y)

NewHead(segs, d) == Cell(segs[1].x + d.x, segs[1].y + d.y)

\* Variant whose right and bottom walls lie one cell too far out.
HitsWallOffByOne(head) ==
    \/ head.x < 0 \/ head.x > GRID_WIDTH
    \/ head.y < 0 \/ head.y > GRID_HEIGHT

\* The wall test of lines 238-239.
HitsWall(head) ==
    head.x < 0 \/ head.x >= GRID_WIDTH \/ head.y < 0 \/ head.y >= GRID_HEIGHT

\* The self-collision loop stopping one segment early.
HitsSelfShort(segs, head) == \E i \in 2..(Len(segs) - 2) : segs[i] = head

\* Variant that spares the tail, as if it had already moved away.
HitsSelfSparingTail(segs, head) == \E i \in 2..(Len(segs) - 1) : segs[i] = head

\* The loop of lines 244-250: the new head against segments[1..] (0-based).
HitsSelf(segs, head) == \E i \in 2..Len(segs) : segs[i] = head

Collides(segs, head) == HitsWall(head) \/ HitsSelf(segs, head)

\* Variant that takes the food as eaten from anywhere in its column.
EatsSameColumn(head, food) == head.x = food.x

Eats(head, food) == head.x = food.x /\ head.y = food.y

moveSnake(draws) ==
    LET head == NewHead(segments, nextDirection)
        grown == <<head>> \o segments
    IN  /\ direction' = nextDirection
        /\ UNCHANGED nextDirection
        /\ IF Collides(segments, head)
             THEN /\ gameOver
                  /\ UNCHANGED <<score, speed, foodEaten, foodPosition, segments,
                                 moveInterval, hung>>
             ELSE /\ UNCHANGED <<state, highScore, storage>>
                  /\ IF Eats(head, foodPosition)
                       THEN /\ segments' = grown
                            /\ eatFood(grown, draws)
                       ELSE /\ segments' = SubSeq(grown, 1, Len(grown) - 1)
                            /\ UNCHANGED <<score, speed, foodEaten, foodPosition,
                                           moveInterval, hung>>

----------------------------------------------------------------------------
(* update and gameLoop, lines 222-229 and 367-371: one animation frame at  *)
(* timestamp currentTime.                                                  *)

\* currentTime - lastMoveTime >= moveInterval, line 225.
TickDue(currentTime, last, interval) ==
    (currentTime - last) * interval.den >= interval.num

\* Variant that also moves the snake during a pause.
updateWhilePaused(currentTime, draws) ==
    IF state \in {"PLAYING", "PAUSED"}
       /\ TickDue(currentTime, lastMoveTime, moveInterval)
      THEN /\ lastMoveTime' = currentTime
           /\ moveSnake(draws)
      ELSE UNCHANGED <<state, gameVars>>

update(currentTime, draws) ==
    IF state = "PLAYING" /\ TickDue(currentTime, lastMoveTime, moveInterval)
      THEN /\ lastMoveTime' = currentTime
           /\ moveSnake(draws)
      ELSE UNCHANGED <<state, gameVars>>

\* clockCap and idleCap bound the frames the model lets arrive: none after
\* clockCap, and outside play none later than idleCap after the last tick.
gameLoop(dt, draws, clockCap, idleCap) ==
    /\ ~hung
    /\ now + dt <= clockCap
    /\ state # "PLAYING" => now + dt - lastMoveTime <= idleCap
    /\ now' = now + dt
    /\ update(now + dt, draws)
    /\ played' = IF lastMoveTime' # lastMoveTime THEN 0
                 ELSE IF state = "PLAYING" /\ played # NoTick THEN played + dt
                 ELSE played

----------------------------------------------------------------------------
(* The game under every key and frame within the bounds.                   *)

FrameDeltas == {FrameMs, 2 * FrameMs}

KeyEvent == \E key \in Keys : handleKeyPress(key, RandomDraws)

Frame ==
    \E dt \in FrameDeltas :
        gameLoop(dt, RandomDraws, MaxClock * FrameMs, MaxClock * FrameMs)

Next == KeyEvent \/ Frame

Spec == Init /\ [][Next]_vars

----------------------------------------------------------------------------
(* A long run of the same game: the player steers the snake along the rows *)
(* from the start row down, right on that row, left on the next, and so on,*)
(* each random sample falls just in front of the head, and a frame         *)
(* arrives every 2 * FrameMs milliseconds.  The player may also miss a     *)
(* turn, and start again after a game has ended.                           *)

RouteDirection(c) ==
    IF (c.y - StartSegments[1].y) % 2 = 0
      THEN IF c.x < GRID_WIDTH - 1 THEN RIGHT ELSE DOWN
      ELSE IF c.x > 0 THEN LEFT ELSE DOWN

RouteAhead(c) == Cell(c.x + RouteDirection(c).x, c.y + RouteDirection(c).y)

\* The sample falls on the cell in front of the head; while the head is at
\* its start position it may also fall one cell further along the route.
RouteDraws ==
    [ h \in GridCells |->
        IF RouteAhead(h) \in GridCells
          THEN {DrawFor(RouteAhead(h))} \cup
               (IF h = StartSegments[1]
                  THEN {DrawFor(RouteAhead(RouteAhead(h)))} ELSE {})
          ELSE {DrawFor(Cell(0, 0))} ]

RouteKey(d) ==
    IF d = RIGHT THEN "ArrowRight" ELSE IF d = LEFT THEN "ArrowLeft"
    ELSE IF d = UP THEN "ArrowUp" ELSE "ArrowDown"

RouteKeys ==
    {"Enter"} \cup
    (IF state = "PLAYING" THEN {RouteKey(RouteDirection(segments[1]))} ELSE {})

LongKeyEvent == \E key \in RouteKeys : handleKeyPress(key, RouteDraws)

LongFrame ==
    gameLoop(2 * FrameMs, RouteDraws, LongClock * FrameMs, LongIdle * FrameMs)

LongNext == LongKeyEvent \/ LongFrame

LongSpec == Init /\ [][LongNext]_vars

----------------------------------------------------------------------------
(* Steps, as the properties below name them.                               *)

\* A frame on which update ran moveSnake.
TickStep == state = "PLAYING" /\ lastMoveTime' # lastMoveTime

\* The head that tick computes, and what the tick finds there.
TickHead == NewHead(segments, nextDirection)

TickCollides ==
    \/ TickHead.x < 0 \/ TickHead.x >= GRID_WIDTH
    \/ TickHead.y < 0 \/ TickHead.y >= GRID_HEIGHT
    \/ \E i \in 2..Len(segments) : segments[i] = TickHead

TickEats == ~TickCollides /\ TickHead = foodPosition

\* The step is the handling of key, one of the keys the model presses.
KeyStep(key) == handleKeyPress(key, RandomDraws) \/ handleKeyPress(key, RouteDraws)

InGrid(c) == 0 <= c.x /\ c.x < 21 /\ 0 <= c.y /\ c.y < 12

----------------------------------------------------------------------------
(* C1: in every reachable state the snake's segment sequence holds no two  *)
(* segments with the same cell.                                            *)

C1_NoDuplicateSegments ==
    \A i, j \in 1..Len(segments) : i # j => segments[i] # segments[j]

\* A game ended by the head turning into the snake's own body.
C1_Witness ==
    /\ state = "GAME_OVER"
    /\ Len(segments) >= 5
    /\ \E i \in 2..(Len(segments) - 1) : segments[i] = NewHead(segments, direction)

(* C2: in every PLAYING state the food cell is inside the 21x12 grid and   *)
(* is no segment of the snake.                                             *)

C2_FoodOffSnake ==
    state = "PLAYING" =>
        /\ InGrid(foodPosition)
        /\ \A i \in 1..Len(segments) : segments[i] # foodPosition

\* Play goes on after two food items, the snake next to the new food.
C2_Witness ==
    /\ state = "PLAYING"
    /\ foodEaten >= 2
    /\ NewHead(segments, nextDirection) = foodPosition

(* C3: the game state starts as MENU and changes only MENU -> PLAYING on   *)
(* Enter, PLAYING -> PAUSED and PAUSED -> PLAYING on Space, PLAYING ->     *)
(* GAME_OVER on a colliding tick, GAME_OVER -> MENU on Enter; every other  *)
(* key or frame leaves it unchanged.                                       *)

C3_Transition ==
    state' # state =>
        \/ state = "MENU" /\ state' = "PLAYING" /\ KeyStep("Enter")
        \/ state = "PLAYING" /\ state' = "PAUSED" /\ (KeyStep(" ") \/ KeyStep("Space"))
        \/ state = "PAUSED" /\ state' = "PLAYING" /\ (KeyStep(" ") \/ KeyStep("Space"))
        \/ state = "PLAYING" /\ state' = "GAME_OVER" /\ TickStep /\ TickCollides
        \/ state = "GAME_OVER" /\ state' = "MENU" /\ KeyStep("Enter")

C3_StateMachine == state = "MENU" /\ [][C3_Transition]_vars

\* Back in MENU after a game in which food was eaten and that has ended.
C3_Witness ==
    /\ state = "MENU"
    /\ segments # <<>>
    /\ score > 0

(* C4: every MENU -> PLAYING transition yields score 0, speed 5, foodEaten *)
(* 0, tick interval 1000/5 ms, segments [(10,6),(9,6),(8,6)], direction =  *)
(* nextDirection = (1,0) and a food cell off the snake, and leaves the     *)
(* high score unchanged.                                                   *)

C4_Start ==
    (state = "MENU" /\ state' = "PLAYING") =>
        /\ score' = 0
        /\ speed' = 5 * 2
        /\ foodEaten' = 0
        /\ moveInterval'.num * 5 = 1000 * moveInterval'.den
        /\ segments' = <<Cell(10, 6), Cell(9, 6), Cell(8, 6)>>
        /\ direction' = Cell(1, 0)
        /\ nextDirection' = Cell(1, 0)
        /\ InGrid(foodPosition')
        /\ \A i \in 1..Len(segments') : segments'[i] # foodPosition'
        /\ highScore' = highScore

C4_StartGameResets == [][C4_Start]_vars

\* A game just started after an earlier game that set a new high score.
C4_Witness ==
    /\ state = "PLAYING"
    /\ score = 0
    /\ foodEaten = 0
    /\ segments = <<Cell(10, 6), Cell(9, 6), Cell(8, 6)>>
    /\ highScore > PriorHigh
    /\ lastMoveTime > 0

(* C5: the in-memory high score never decreases: on every step             *)
(* highScore' >= highScore.                                                *)

C5_HighScoreMonotone == [][highScore' >= highScore]_vars

\* A game has ended with a score above the high score loaded at startup.
C5_Witness ==
    /\ state = "GAME_OVER"
    /\ highScore > PriorHigh
    /\ highScore = score

(* C6: a colliding tick ends in GAME_OVER; it sets highScore to score and  *)
(* writes that value to localStorage when score > highScore, and leaves    *)
(* both unchanged otherwise.  So in GAME_OVER highScore >= score, and a    *)
(* written item always equals the in-memory high score.                    *)

C6_Collision ==
    (TickStep /\ TickCollides) =>
        /\ state' = "GAME_OVER"
        /\ IF score > highScore
             THEN highScore' = score /\ storage' # <<>> /\ ParseInt(storage') = score
             ELSE highScore' = highScore /\ storage' = storage

C6_Persisted ==
    /\ state = "GAME_OVER" => highScore >= score
    /\ storage # <<>> => ParseInt(storage) = highScore

C6_GameOverHighScore == []C6_Persisted /\ [][C6_Collision]_vars

\* A second game has ended below the high score the first game wrote.
C6_Witness ==
    /\ state = "GAME_OVER"
    /\ storage # <<>>
    /\ ParseInt(storage) > PriorHigh
    /\ score < highScore

(* C7: the direction a tick commits is never the exact opposite of the     *)
(* direction active before that tick, whatever keys arrived since the      *)
(* previous tick; a request to reverse leaves the pending direction as it  *)
(* was.                                                                    *)

ReversalKeys == { k \in Keys \cap TurnKeys : KeyDirection(k) = Opposite(direction) }

C7_ReversalDropped ==
    state = "PLAYING" =>
        \A k \in ReversalKeys :
            ~ENABLED (handleKeyPress(k, RandomDraws) /\ nextDirection' # nextDirection)

C7_Tick == TickStep => direction' # Opposite(direction)

C7_NoReversal == []C7_ReversalDropped /\ [][C7_Tick]_vars

\* The snake has turned twice, left after down: it now moves against its
\* first direction, with a turn pending.
C7_Witness ==
    /\ state = "PLAYING"
    /\ direction = LEFT
    /\ nextDirection \in {UP, DOWN}
    /\ segments[1].x < segments[2].x

(* C8: while PLAYING every turn request that is not a reversal of the      *)
(* active direction, a request equal to it included, is stored as          *)
(* nextDirection, overwriting an older pending request, and the next tick  *)
(* commits the stored request.                                             *)

NonReversalKeys == { k \in Keys \cap TurnKeys : KeyDirection(k) # Opposite(direction) }

C8_Original ==
    state = "PLAYING" =>
        \A k \in NonReversalKeys :
            ENABLED (handleKeyPress(k, RandomDraws) /\ nextDirection' = KeyDirection(k))

(* C8 as amended: while PLAYING every turn request perpendicular to the    *)
(* active direction is stored as nextDirection, overwriting an older       *)
(* pending request; a request equal or opposite to the active direction is *)
(* ignored; the next tick commits the stored request.                      *)

Perpendicular(d, e) == d.x * e.x + d.y * e.y = 0

C8_Request ==
    state = "PLAYING" =>
        \A k \in Keys \cap TurnKeys :
            IF Perpendicular(KeyDirection(k), direction)
              THEN /\ ENABLED (handleKeyPress(k, RandomDraws)
                                /\ nextDirection' = KeyDirection(k))
                   /\ ~ENABLED (handleKeyPress(k, RandomDraws)
                                 /\ nextDirection' # KeyDirection(k))
              ELSE ~ENABLED (handleKeyPress(k, RandomDraws)
                             /\ nextDirection' # nextDirection)

C8_Tick == TickStep => direction' = nextDirection

C8_PerpendicularStored == []C8_Request /\ [][C8_Tick]_vars

\* A tick has committed a turn and the opposite perpendicular turn is
\* pending: a request that overwrote nothing older would be the same.
C8_Witness ==
    /\ state = "PLAYING"
    /\ direction = DOWN
    /\ segments[1].y > segments[2].y
    /\ nextDirection = LEFT

(* C9: a tick that eats food adds exactly 10 + (snake length after that    *)
(* tick's growth) + 2 * floor(speed before any increase by this food) to   *)
(* score and 1 to foodEaten; score changes on no other step but the reset  *)
(* to 0 on MENU -> PLAYING.                                                *)

C9_Step ==
    /\ (TickStep /\ TickEats) =>
            /\ score' = score + 10 + (Len(segments) + 1) + 2 * (speed \div 2)
            /\ Len(segments') = Len(segments) + 1
            /\ foodEaten' = foodEaten + 1
    /\ score' # score =>
            \/ TickStep /\ TickEats
            \/ state = "MENU" /\ state' = "PLAYING" /\ score' = 0

C9_FoodScore == [][C9_Step]_vars

\* Food eaten at speed 5.5, after a tick of the same game that ate none.
C9_Witness ==
    /\ state = "PLAYING"
    /\ speed = 11
    /\ foodEaten = 6
    /\ Len(segments) = 9
    /\ segments[1].x = StartSegments[1].x + 7

(* C10: speed grows by 0.5 exactly on each food item that makes foodEaten  *)
(* a multiple of 5, is clamped at 15 and changes on no other step of a     *)
(* game; so always 5 <= speed <= 15, speed = min(15, 5 + 0.5 * (foodEaten  *)
(* div 5)), and speed never decreases during a game.                       *)

C10_Range ==
    /\ 5 * 2 <= speed
    /\ speed <= 15 * 2
    /\ speed = Min(15 * 2, 5 * 2 + foodEaten \div 5)

C10_Step ==
    /\ (TickStep /\ TickEats) =>
            speed' = IF (foodEaten + 1) % 5 = 0 /\ speed + 1 <= 15 * 2
                       THEN speed + 1 ELSE speed
    /\ speed' # speed =>
            \/ TickStep /\ TickEats
            \/ state = "MENU" /\ state' = "PLAYING"
    /\ ~(state = "MENU" /\ state' = "PLAYING") => speed' >= speed

C10_SpeedProgression == []C10_Range /\ [][C10_Step]_vars

\* The 105th food item of a game has been eaten at the maximum speed.
C10_Witness ==
    /\ state = "PLAYING"
    /\ foodEaten = 105
    /\ speed = 15 * 2

----------------------------------------------------------------------------
\* The fields of a game in progress that a pause must preserve.
PlayFields == <<segments, direction, nextDirection, foodPosition, score,
                speed, foodEaten>>

\* C11: pausing, every key and every frame handled while PAUSED, and
\* resuming leave segments, direction, nextDirection, foodPosition, score,
\* speed and foodEaten exactly as they were; PAUSED is left only for PLAYING.
C11_PauseStep ==
    (state = "PAUSED" \/ state' = "PAUSED")
        => /\ UNCHANGED PlayFields
           /\ state = "PAUSED" => state' \in {"PAUSED", "PLAYING"}
           /\ state' = "PAUSED" => state \in {"PAUSED", "PLAYING"}

C11_PauseRoundTrip == [][C11_PauseStep]_vars

\* A game resumed after a pause during which frames were processed: more
\* time has passed since the latest tick than was spent playing.
C11_Witness ==
    /\ state = "PLAYING"
    /\ foodEaten >= 1
    /\ played # NoTick
    /\ now - lastMoveTime >= played + 2 * FrameMs

----------------------------------------------------------------------------
\* C12: a tick that does not collide prepends exactly one new head; the old
\* segments all stay when the head lands on the food, and all but the tail
\* stay otherwise.
C12_Step ==
    (TickStep /\ ~TickCollides)
        => segments' = IF TickEats
                         THEN <<TickHead>> \o segments
                         ELSE <<TickHead>> \o SubSeq(segments, 1, Len(segments) - 1)

C12_TickMovesSnake == [][C12_Step]_vars

\* The snake after one eating tick and one plain tick from the start.
C12_Witness ==
    /\ foodEaten = 1
    /\ segments = <<Cell(12, 6), Cell(11, 6), Cell(10, 6), Cell(9, 6)>>

----------------------------------------------------------------------------
\* C14: a tick whose new head is inside the grid ends the game if and only
\* if the head equals a segment of index 1 to last of the snake before the
\* move (0-based; the current tail included), and then leaves segments
\* unchanged.
C14_Step ==
    (TickStep /\ InGrid(TickHead))
        => /\ state' = "GAME_OVER"
                <=> \E i \in 2..Len(segments) : segments[i] = TickHead
           /\ state' = "GAME_OVER" => UNCHANGED segments

C14_SelfCollision == [][C14_Step]_vars

\* A game ended by a head that turned into the cell of the snake's tail.
C14_Witness ==
    /\ state = "GAME_OVER"
    /\ Len(segments) >= 4
    /\ NewHead(segments, direction) = segments[Len(segments)]

----------------------------------------------------------------------------
\* C15: in MENU, PAUSED and GAME_OVER a directional key changes nothing:
\* handling it cannot lead to a state that differs in any field.
C15_TurnKeysIgnored ==
    state # "PLAYING"
        => \A key \in Keys \cap TurnKeys :
              /\ ENABLED handleKeyPress(key, RandomDraws)
              /\ ~ENABLED (handleKeyPress(key, RandomDraws) /\ vars' # vars)

\* A paused game whose snake runs along a row, where a vertical turn would
\* be a legal request during play.
C15_Witness ==
    /\ state = "PAUSED"
    /\ foodEaten >= 1
    /\ direction.y = 0
    /\ nextDirection = direction

----------------------------------------------------------------------------
\* C20: once a game has been started the snake has 3 + foodEaten segments,
\* in every state of every game; each tick changes both by the same amount.
C20_LengthIsFoodEatenPlus3 ==
    segments # <<>> => Len(segments) = 3 + foodEaten

C20_Witness ==
    /\ foodEaten >= 100
    /\ Len(segments) = 3 + foodEaten
    /\ state = "GAME_OVER"

----------------------------------------------------------------------------
(* Games at the border.  A snake that has eaten nothing can be steered to  *)
(* any cell of the border, so the specification starts from every state of *)
(* play with the three-cell snake lying straight, its head on a border     *)
(* cell and heading out of the grid, and food on a free neighbour of the   *)
(* head or on a cell the model's draws select.                             *)
BorderClock == 4

Outward(c) ==
    { d \in Directions : ~InGrid(Cell(c.x + d.x, c.y + d.y)) }

StraightSnake(c, d) ==
    <<c, Cell(c.x - d.x, c.y - d.y), Cell(c.x - 2 * d.x, c.y - 2 * d.y)>>

BorderFood(segs) ==
    { c \in GridCells :
        /\ ~OnSnake(segs, c)
        /\ (c.x - segs[1].x) * (c.x - segs[1].x)
             + (c.y - segs[1].y) * (c.y - segs[1].y) = 1 }
    \cup spawnFood(segs, RandomDraws)

BorderInit ==
    /\ storage \in {<<>>, toString(PriorHigh)}
    /\ highScore = loadHighScore(storage)
    /\ state = "PLAYING"
    /\ score = 0
    /\ speed = INITIAL_SPEED * 2
    /\ foodEaten = 0
    /\ moveInterval = IntervalFor(INITIAL_SPEED * 2)
    /\ \E c \in GridCells : \E d \in Outward(c) :
          /\ segments = StraightSnake(c, d)
          /\ direction = d
          /\ nextDirection = d
    /\ foodPosition \in BorderFood(segments)
    /\ lastMoveTime = 0
    /\ now = 0
    /\ played = 0
    /\ hung = FALSE

BorderFrame ==
    \E dt \in FrameDeltas :
        gameLoop(dt, RandomDraws, BorderClock * FrameMs, BorderClock * FrameMs)

BorderNext == KeyEvent \/ BorderFrame

BorderSpec == BorderInit /\ [][BorderNext]_vars

\* C13: for every border cell and every direction leading out of the grid
\* from it, a tick whose new head leaves the grid ends the game and leaves
\* segments, foodPosition, score, speed and foodEaten unchanged.
C13_Step ==
    (TickStep /\ ~InGrid(TickHead))
        => /\ state' = "GAME_OVER"
           /\ UNCHANGED <<segments, foodPosition, score, speed, foodEaten>>

C13_WallCollision == [][C13_Step]_vars

\* A game ended in the bottom right corner by a snake that had eaten.
C13_Witness ==
    /\ state = "GAME_OVER"
    /\ segments[1] = Cell(GRID_WIDTH - 1, GRID_HEIGHT - 1)
    /\ direction = DOWN
    /\ foodEaten >= 1

----------------------------------------------------------------------------
(* Pacing.  The player follows the route of the long run and may pause;    *)
(* frames arrive FrameMs or a little under 2 * FrameMs apart, so that the  *)
(* time since the latest tick falls below, between and above the intervals *)
(* of two consecutive speeds.                                              *)
PacedClock == 20

PacedDeltas == {FrameMs, 2 * FrameMs - FrameMs \div 10}

PacedKeyEvent ==
    \E key \in RouteKeys \cup {" "} : handleKeyPress(key, RouteDraws)

PacedFrame ==
    \E dt \in PacedDeltas :
        gameLoop(dt, RouteDraws, PacedClock * FrameMs, LongIdle * FrameMs)

PacedNext == PacedKeyEvent \/ PacedFrame

PacedSpec == Init /\ [][PacedNext]_vars

\* A step that moved the snake or recorded a move.
Ticked == lastMoveTime' # lastMoveTime \/ (state = "PLAYING" /\ segments' # segments)

\* C16: moveInterval is always 1000 ms divided by the current speed (the
\* model stores twice the speed); a step ticks exactly when it is a frame
\* processed in PLAYING with at least that interval elapsed since the latest
\* tick; and a frame moves the head by at most one cell.
C16_Step ==
    /\ Ticked <=> /\ state = "PLAYING"
                  /\ now' # now
                  /\ (now' - lastMoveTime) * speed >= 1000 * 2
    /\ Ticked => /\ lastMoveTime' = now'
                 /\ \/ segments' = segments
                    \/ SubSeq(segments', 2, Len(segments')) = segments
                    \/ SubSeq(segments', 2, Len(segments'))
                         = SubSeq(segments, 1, Len(segments) - 1)

C16_TickPacing ==
    /\ [](moveInterval.num * speed = 1000 * 2 * moveInterval.den)
    /\ [][C16_Step]_vars

\* At speed 5.5 a frame has just been processed without a tick although a
\* full interval of the starting speed had not been far off.
C16_Witness ==
    /\ state = "PLAYING"
    /\ speed = 11
    /\ now - lastMoveTime = FrameMs
    /\ played = FrameMs

----------------------------------------------------------------------------
\* C17: time that passed while PAUSED does not count toward the next tick:
\* a tick that follows an earlier tick of the same game happens only once
\* the time spent in PLAYING since that tick, the frame that brings the tick
\* included, has reached the tick interval of 1000 ms / speed.
C17_Step ==
    (TickStep /\ played # NoTick)
        => (played + (now' - now)) * speed >= 1000 * 2

C17_NoTimeDebt == [][C17_Step]_vars

----------------------------------------------------------------------------
(* The perfect game.  The player steers the snake round a closed route     *)
(* through all cells of the grid: along row 0 to the right, down the rows  *)
(* 1 to 11 in alternating directions over the columns 1 to 20 (row 6 to    *)
(* the right, through the starting snake), and back up column 0.  A snake  *)
(* that stays on the route never meets itself, wherever the food falls;    *)
(* here the food always falls on the cell in front of the head, and the    *)
(* player has always turned before the frame that brings the next tick.    *)
FillClock == 500

CycleDirection(c) ==
    IF c.y = 0 THEN (IF c.x < GRID_WIDTH - 1 THEN RIGHT ELSE DOWN)
    ELSE IF c.x = 0 THEN UP
    ELSE IF c.y = GRID_HEIGHT - 1 THEN LEFT
    ELSE IF c.y % 2 = 1 THEN (IF c.x > 1 THEN LEFT ELSE DOWN)
    ELSE (IF c.x < GRID_WIDTH - 1 THEN RIGHT ELSE DOWN)

CycleAhead(c) == Cell(c.x + CycleDirection(c).x, c.y + CycleDirection(c).y)

FillDraws == [ h \in GridCells |-> {DrawFor(CycleAhead(h))} ]

\* Every pair of results Math.random() can give, for any position of the head.
AllDraws == [ h \in GridCells |-> { DrawFor(c) : c \in GridCells } ]

FillKeys ==
    {"Enter"} \cup
    (IF state = "PLAYING" THEN {RouteKey(CycleDirection(segments[1]))} ELSE {})

FillKeyEvent == \E key \in FillKeys : handleKeyPress(key, FillDraws)

FillFrame ==
    /\ state = "PLAYING" => nextDirection = CycleDirection(segments[1])
    /\ gameLoop(2 * FrameMs, FillDraws, FillClock * FrameMs, LongIdle * FrameMs)

FillNext == FillKeyEvent \/ FillFrame

FillSpec == Init /\ [][FillNext]_vars

\* C19: every call of spawnFood terminates and returns a cell of the grid
\* that no segment occupies: whenever the next tick eats, the snake grown by
\* its new head occupies fewer than all cells of the grid, so that some pair
\* of random results yields a free cell.
C19_SpawnTerminates ==
    (state = "PLAYING" /\ TickEats)
        => /\ Len(segments) + 1 < GRID_WIDTH * GRID_HEIGHT
           /\ spawnFood(<<TickHead>> \o segments, AllDraws) # {}
           /\ \A c \in spawnFood(<<TickHead>> \o segments, AllDraws) :
                 InGrid(c) /\ ~OnSnake(<<TickHead>> \o segments, c)

----------------------------------------------------------------------------
\* A key handler or a frame can run and complete, whatever the time of the
\* frame and the results of Math.random().
SomeStepCompletes ==
    \/ \E key \in Keys : ENABLED handleKeyPress(key, AllDraws)
    \/ ENABLED gameLoop(FrameMs, AllDraws, now + FrameMs, now + FrameMs)

\* C18: the machine has no terminal state: in every reachable state some
\* key event or frame is enabled and completes, and in GAME_OVER the confirm
\* key leads to MENU (without a step that completes no state, MENU included,
\* can be reached any more).
C18_NoTerminalState ==
    /\ SomeStepCompletes
    /\ state = "GAME_OVER"
          => ENABLED (handleKeyPress("Enter", AllDraws) /\ state' = "MENU")

----------------------------------------------------------------------------
Abs(n) == IF n < 0 THEN 0 - n ELSE n

Manhattan(a, b) == Abs(a.x - b.x) + Abs(a.y - b.y)

\* C21: whenever the snake is not empty, every segment lies inside the grid
\* (0 <= x < 21, 0 <= y < 12) and consecutive segments are orthogonal
\* neighbours (Manhattan distance exactly 1): the snake is a contiguous
\* path inside the grid.
C21_ContiguousInBounds ==
    segments # <<>>
        => /\ \A i \in 1..Len(segments) : InGrid(segments[i])
           /\ \A i \in 1..(Len(segments) - 1) :
                 Manhattan(segments[i], segments[i + 1]) = 1

\* A long snake that has just turned down at the right wall.
C21_Witness ==
    /\ Len(segments) >= 20
    /\ segments[1] = Cell(GRID_WIDTH - 1, segments[2].y + 1)
    /\ segments[2].x = GRID_WIDTH - 1
    /\ segments[3].x = GRID_WIDTH - 2

====
